---- MODULE Spec2Model ----
(***************************************************************************)
(* Model of pet_twin.py: the PET glycolysis simulator.                     *)
(*                                                                         *)
(* The script computes with IEEE doubles; the model computes with scaled   *)
(* integers that fit TLC's 32-bit arithmetic:                              *)
(*   concentrations            1 = 1e-6 mol/L        (Unit = 1.0 mol/L)    *)
(*   exp(...)                  1 = 1e-13                                   *)
(*   pre-exponential factor A  1 = 1e4                                     *)
(*   rate constant k = A*exp   1 = 1e-9  1/min                             *)
(*   reaction rates, dC/dt     1 = 1e-9  mol/L/min                         *)
(*   activation energy Ea      1 = 1 J/mol                                 *)
(*   temperature in kelvin     1 = 0.01 K                                  *)
(*   mol_ratio                 1 = 0.01                                    *)
(*   cat_percent               1 = 0.1 wt%                                 *)
(*   time                      1 = 1/99 min, so that the 100 points of     *)
(*                             np.linspace(0, run_time, 100) are integers  *)
(*   final_conversion          1 = 1e-6 %                                  *)
(* A product of two scaled numbers is divided by the scale and truncated,  *)
(* as a double product is rounded.  An IEEE inf or nan is the one value    *)
(* NonFinite, which every operation propagates.                            *)
(***************************************************************************)
EXTENDS Integers, Sequences, FiniteSets

VARIABLES
    pc,                 \* position of the script run
    T_celsius,          \* line 80  (slider value)
    mol_ratio,          \* line 84  (slider value)
    cat_percent,        \* line 85  (number_input value)
    run_time,           \* line 88  (slider value)
    Real_Params,        \* line 105
    t_grid,             \* line 108
    solution,           \* line 111: the rows odeint has written so far: how many,
                        \* the first and the latest (the script reads
                        \* solution[-1]; a row is written once)
    ode,                \* odeint's internal state while line 111 runs
    final_bhet,         \* line 129
    final_conversion,   \* line 130
    last_conversion,    \* the conversion metric shown by the previous run
    call,               \* a direct call of one of the three functions
    ret                 \* and what it returned

vars == <<pc, T_celsius, mol_ratio, cat_percent, run_time, Real_Params, t_grid,
          solution, ode, final_bhet, final_conversion, last_conversion, call, ret>>

None == "none"

----------------------------------------------------------------------------
(* Scaled arithmetic *)

Base == 10 ^ 3
Unit == Base * Base

Abs(x) == IF x < 0 THEN -x ELSE x

Sgn(x) == IF x < 0 THEN -1 ELSE 1

\* IEEE inf / nan
NonFinite == 2147483647

IsFinite(x) == x # NonFinite

\* floor(a * b / Unit) for naturals a, b, by limbs of Base so that no
\* intermediate value leaves 32 bits
MulDivNat(a, b) ==
    LET a1 == a \div Base
        a0 == a % Base
        b1 == b \div Base
        b0 == b % Base
    IN  a1 * b1 + ((a1 * b0 + a0 * b1 + (a0 * b0) \div Base) \div Base)

\* a * b of two doubles, the result at the scale of a when b is a concentration
FMul(a, b) ==
    IF ~IsFinite(a) \/ ~IsFinite(b) THEN NonFinite
    ELSE Sgn(a) * Sgn(b) * MulDivNat(Abs(a), Abs(b))

FAdd(a, b) == IF ~IsFinite(a) \/ ~IsFinite(b) THEN NonFinite ELSE a + b

FSub(a, b) == IF ~IsFinite(a) \/ ~IsFinite(b) THEN NonFinite ELSE a - b

FNeg(a) == IF ~IsFinite(a) THEN NonFinite ELSE -a

\* a / b of two concentrations, at scale Unit (b <= 2e6)
FDiv(a, b) ==
    LET q  == a \div b
        r1 == a % b
        q2 == (r1 * Base) \div b
        r2 == (r1 * Base) % b
        q3 == (r2 * Base) \div b
    IN  q * Unit + q2 * Base + q3

\* round(x * h / d) to the nearest integer, x * h never formed
RoundMulDiv(x, h, d) ==
    LET q == x \div d
        r == x % d
    IN  q * h + ((2 * r * h + d) \div (2 * d))

----------------------------------------------------------------------------
(* np.exp *)

\* 1e13 * exp(-n) for n = 9 .. 30
ExpTable ==
    << 1234098041, 453999298, 167017008, 61442124, 22603294, 8315287,
       3059023, 1125352, 413994, 152300, 56028, 20612, 7583, 2789, 1026,
       378, 139, 51, 19, 7, 3, 1 >>

ExpTableFirst == 9

\* exp(709.78) is the largest finite double
ExpOverflow == 709782

\* number of terms of the series for exp(-u), 0 <= u < 1
ExpTerms == 10

\* Unit * exp(-u / 1000) for 0 <= u < 1000, by Horner's rule on the series
RECURSIVE ExpSeries(_, _)
ExpSeries(u, j) ==
    IF j > ExpTerms THEN Unit
    ELSE Unit - ((u * ExpSeries(u, j + 1)) \div (Base * j))

\* np.exp(arg / 1000) at scale 1e13.  Results between 1e-4 and the overflow
\* threshold do not fit the scale and are left undefined: no input of the
\* model produces one.
np_exp(arg) ==
    CASE arg > ExpOverflow -> NonFinite
      [] arg <= -(ExpTableFirst * Base) ->
            LET x == -arg
                n == x \div Base
                u == x % Base
            IN  IF n - ExpTableFirst + 1 > Len(ExpTable) THEN 0
                ELSE MulDivNat(ExpTable[n - ExpTableFirst + 1], ExpSeries(u, 1))

----------------------------------------------------------------------------
(* 1. The kinetic model, lines 17-65 *)

R == 8314

\* get_k with the precedence slip -Ea / R * T_kelvin
get_k_noparen(T_kelvin, A, Ea) ==
    LET e == np_exp((-(((Ea * 10000) \div R) * 10)) * (T_kelvin \div 100))
    IN  IF ~IsFinite(e) THEN NonFinite ELSE A * e

\* return A * np.exp(-Ea / (R * T_kelvin))
get_k(T_kelvin, A, Ea) ==
    LET e == np_exp(-((((Ea * 10000) \div R) * 10000) \div T_kelvin))
    IN  IF ~IsFinite(e) THEN NonFinite ELSE A * e

\* reaction_model with dOli_dt = r1 (the "- r2" lost)
reaction_model_leak(y, t, T_kelvin, params) ==
    LET k1 == get_k(T_kelvin, params[1], params[2])
        k2 == get_k(T_kelvin, params[3], params[4])
        r1 == FMul(FMul(k1, y[1]), y[2])
        r2 == FMul(FMul(k2, y[3]), y[2])
    IN  << FNeg(r1), FSub(FNeg(r1), r2), r1, r2 >>

\* reaction_model with dEG_dt = -r1 (the EG of the second step forgotten)
reaction_model_eg1(y, t, T_kelvin, params) ==
    LET k1 == get_k(T_kelvin, params[1], params[2])
        k2 == get_k(T_kelvin, params[3], params[4])
        r1 == FMul(FMul(k1, y[1]), y[2])
        r2 == FMul(FMul(k2, y[3]), y[2])
    IN  << FNeg(r1), FNeg(r1), FSub(r1, r2), r2 >>

\* reaction_model with dPET_dt = r1 (the sign lost)
reaction_model_sign(y, t, T_kelvin, params) ==
    LET k1 == get_k(T_kelvin, params[1], params[2])
        k2 == get_k(T_kelvin, params[3], params[4])
        r1 == FMul(FMul(k1, y[1]), y[2])
        r2 == FMul(FMul(k2, y[3]), y[2])
    IN  << r1, FSub(FNeg(r1), r2), FSub(r1, r2), r2 >>

\* y = [C_PET, C_EG, C_Oligomer, C_BHET]; returns [dPET, dEG, dOli, dBHET]
reaction_model(y, t, T_kelvin, params) ==
    LET C_PET == y[1]
        C_EG == y[2]
        C_Oligomer == y[3]
        C_BHET == y[4]
        A1 == params[1]
        Ea1 == params[2]
        A2 == params[3]
        Ea2 == params[4]
        k1 == get_k(T_kelvin, A1, Ea1)
        k2 == get_k(T_kelvin, A2, Ea2)
        r1 == FMul(FMul(k1, C_PET), C_EG)
        r2 == FMul(FMul(k2, C_Oligomer), C_EG)
        dPET_dt == FNeg(r1)
        dEG_dt == FSub(FNeg(r1), r2)
        dOli_dt == FSub(r1, r2)
        dBHET_dt == r2
    IN  << dPET_dt, dEG_dt, dOli_dt, dBHET_dt >>

efficiency_factor == 2

\* cat_amount is in tenths
CatUnit == 10

\* adjust_params_by_catalyst that scales A1 only
adjust_params_A1_only(base_params, cat_amount) ==
    << (base_params[1] * (CatUnit + cat_amount * efficiency_factor)) \div CatUnit,
       base_params[2], base_params[3], base_params[4] >>

\* adjust_params_by_catalyst that hands the base parameters back
adjust_params_unchanged(base_params, cat_amount) == base_params

adjust_params_by_catalyst(base_params, cat_amount) ==
    LET base_A1 == base_params[1]
        base_Ea1 == base_params[2]
        base_A2 == base_params[3]
        base_Ea2 == base_params[4]
        new_A1 == (base_A1 * (CatUnit + cat_amount * efficiency_factor)) \div CatUnit
        new_A2 == (base_A2 * (CatUnit + cat_amount * efficiency_factor)) \div CatUnit
    IN  << new_A1, base_Ea1, new_A2, base_Ea2 >>

----------------------------------------------------------------------------
(* 2. The computation of the script, lines 93-111 *)

C0_PET == 1000000

\* mol_ratio is in hundredths
RatioUnit == 100

C0_EG(ratio) == (C0_PET * ratio) \div RatioUnit

\* Initial_State with the oligomer slot taken for EG
Initial_State_swapped(ratio) == << C0_PET, 0, C0_EG(ratio), 0 >>

\* [C0_PET, C0_EG, 0.0, 0.0]
Initial_State(ratio) == << C0_PET, C0_EG(ratio), 0, 0 >>

\* (1e6, 80000, 5e5, 85000)
Base_Params == << 100, 80000, 50, 85000 >>

\* T_kelvin = T_celsius + 273.15
T_kelvin(celsius) == celsius * 100 + 27315

NPoints == 100

\* np.linspace(0, stop, 99): one point short
linspace_short(stop) == [i \in 1 .. NPoints - 1 |-> (i - 1) * stop]

\* np.linspace(0, stop, 100), in units of 1/99 min
linspace(stop) == [i \in 1 .. NPoints |-> (i - 1) * stop]

----------------------------------------------------------------------------
(* odeint, line 111.  scipy's LSODA is an adaptive solver: it calls           *)
(* reaction_model at states of its own choosing, keeps the local error of     *)
(* each step under rtol * |y| + atol, and writes one row per grid point.      *)
(* It is modelled as the adaptive Euler scheme with that error test (the      *)
(* error estimate is the difference to the second-order Heun step).  A        *)
(* component smaller than atol is one whose digits the error test does not    *)
(* control: the row written may be off by one unit in such a component.       *)

\* rtol = 1 / RtolDen
RtolDen == 1000

\* atol, in concentration units
Atol == 250

\* LSODA lets a step grow by at most this factor over the last one
StepGrowth == 10

\* the error of a written component that the error test does not control
Ulp == 1

\* istate of LSODA: 1 before the first call, 2 after a successful call,
\* negative after a failed one
IdleOde == [t |-> 0, y |-> <<0, 0, 0, 0>>, dydt |-> <<0, 0, 0, 0>>, h |-> 0, istate |-> 0]

NoRows == [n |-> 0, first |-> <<0, 0, 0, 0>>, last |-> <<0, 0, 0, 0>>]

AllFinite(v) == \A i \in 1 .. 4 : IsFinite(v[i])

\* y + h * f, h in units of 1/99 min, f in 1e-9 mol/L/min
EulerStep(y, f, h) ==
    [i \in 1 .. 4 |-> y[i] + RoundMulDiv(f[i], h, (NPoints - 1) * Base)]

\* the error test of one step of size h from y, where f0 = f(y)
ErrorTestOK(y, f0, h, T, params) ==
    LET f1 == reaction_model(EulerStep(y, f0, h), 0, T, params)
    IN  /\ AllFinite(f1)
        /\ \A i \in 1 .. 4 :
              Abs(RoundMulDiv(f1[i] - f0[i], h, 2 * (NPoints - 1) * Base))
                 <= Abs(y[i]) \div RtolDen + Atol

\* the largest of m, m/2, m/4, ... (at least 1) that passes the error test;
\* 0 when none does
RECURSIVE ChooseStep(_, _, _, _, _, _)
ChooseStep(y, f0, m, dir, T, params) ==
    IF ErrorTestOK(y, f0, dir * m, T, params) THEN m
    ELSE IF m <= 1 THEN 0
    ELSE ChooseStep(y, f0, m \div 2, dir, T, params)

\* the first step size tried: the smallest step at the start, then StepGrowth
\* times the last step, and never beyond the next grid point
FirstTry(rem, hlast) ==
    IF hlast = 0 THEN 1
    ELSE IF StepGrowth * hlast >= rem THEN rem ELSE StepGrowth * hlast

\* the grid point odeint is heading for
Tout == t_grid[solution.n + 1]

\* the solver's next move from state o: the derivative there and the signed
\* step; h = 0 when LSODA gives up (the derivative is not finite, or no step
\* passes the error test)
SolverPlan(o) ==
    LET f0 == reaction_model(o.y, o.t, T_kelvin(T_celsius), Real_Params)
        dir == Sgn(Tout - o.t)
        m == IF AllFinite(f0)
             THEN ChooseStep(o.y, f0, FirstTry(Abs(Tout - o.t), o.h), dir,
                             T_kelvin(T_celsius), Real_Params)
             ELSE 0
    IN  [dydt |-> f0, h |-> dir * m]

\* the row written for solver state y with error e
Written(y, e) == [i \in 1 .. 4 |-> IF Abs(y[i]) <= Atol THEN y[i] + e ELSE y[i]]

\* what the rows odeint never wrote may hold
GarbageRows == { <<0, 0, 0, 0>>, <<NonFinite, NonFinite, NonFinite, NonFinite>> }

----------------------------------------------------------------------------
(* The script, run top to bottom on every interaction *)

\* lines 80-108 and the entry into odeint
Prepare ==
    /\ pc = "start"
    /\ Real_Params' = adjust_params_by_catalyst(Base_Params, cat_percent)
    /\ t_grid' = linspace(run_time)
    /\ solution' = NoRows
    /\ ode' = [t |-> 0, y |-> Initial_State(mol_ratio), dydt |-> <<0, 0, 0, 0>>,
               h |-> 0, istate |-> 1]
    /\ pc' = "odeint"
    /\ UNCHANGED <<T_celsius, mol_ratio, cat_percent, run_time, final_bhet,
                   final_conversion, last_conversion, call, ret>>

\* the row for the next grid point: y0 itself for the first point, the last
\* row again for a grid point that repeats the one before, and else the
\* state the solver has reached
OdeintOutput ==
    /\ pc = "odeint"
    /\ ode.istate > 0
    /\ solution.n < Len(t_grid)
    /\ ode.t = Tout
    /\ \E e \in {-Ulp, 0, Ulp} :
          LET row == IF solution.n = 0 THEN ode.y
                     ELSE IF Tout = t_grid[solution.n] THEN solution.last
                     ELSE Written(ode.y, e)
          IN  solution' = [n |-> solution.n + 1,
                           first |-> IF solution.n = 0 THEN row ELSE solution.first,
                           last |-> row]
    /\ UNCHANGED <<pc, T_celsius, mol_ratio, cat_percent, run_time, Real_Params,
                   t_grid, ode, final_bhet, final_conversion, last_conversion,
                   call, ret>>

\* one internal step of the solver towards the next grid point
OdeintStep ==
    /\ pc = "odeint"
    /\ ode.istate > 0
    /\ solution.n < Len(t_grid)
    /\ ode.t # Tout
    /\ LET plan == SolverPlan(ode)
       IN  /\ plan.h # 0
           /\ ode' = [t |-> ode.t + plan.h,
                      y |-> EulerStep(ode.y, plan.dydt, plan.h),
                      dydt |-> plan.dydt, h |-> Abs(plan.h), istate |-> 2]
    /\ UNCHANGED <<pc, T_celsius, mol_ratio, cat_percent, run_time, Real_Params,
                   t_grid, solution, final_bhet, final_conversion,
                   last_conversion, call, ret>>

\* the solver fails: odeint warns (ODEintWarning), stops writing rows and
\* returns the array all the same
OdeintFail ==
    /\ pc = "odeint"
    /\ ode.istate > 0
    /\ solution.n < Len(t_grid)
    /\ ode.t # Tout
    /\ LET plan == SolverPlan(ode)
       IN  /\ plan.h = 0
           /\ ode' = [ode EXCEPT !.istate = -1, !.dydt = plan.dydt]
    /\ \E g \in GarbageRows :
          solution' = [solution EXCEPT !.n = Len(t_grid), !.last = g]
    /\ UNCHANGED <<pc, T_celsius, mol_ratio, cat_percent, run_time, Real_Params,
                   t_grid, final_bhet, final_conversion, last_conversion,
                   call, ret>>

\* (1.0 - x / C0_PET) * 100
Conversion(x) ==
    IF ~IsFinite(x) THEN NonFinite ELSE (Unit - FDiv(x, C0_PET)) * 100

\* lines 113-137: odeint has returned; the metrics are read off the last row
Display ==
    /\ pc = "odeint"
    /\ solution.n = Len(t_grid)
    /\ final_bhet' = solution.last[4]
    /\ final_conversion' = Conversion(solution.last[1])
    /\ pc' = "done"
    /\ UNCHANGED <<T_celsius, mol_ratio, cat_percent, run_time, Real_Params,
                   t_grid, solution, ode, last_conversion, call, ret>>

\* values the widgets of lines 80-88 are set to
TemperatureChoices == {160, 196, 260}
RatioChoices == {150, 400, 1000}
CatalystChoices == {0, 5, 20, 50}
RunTimeChoices == {30, 180, 300}

NoConversion == [shown |-> FALSE, value |-> 0]

NoCall == [fn |-> None]

\* the script starts over with these widget values
Fresh(T, ratio, cat, time) ==
    /\ pc' = "start"
    /\ T_celsius' = T
    /\ mol_ratio' = ratio
    /\ cat_percent' = cat
    /\ run_time' = time
    /\ Real_Params' = <<0, 0, 0, 0>>
    /\ t_grid' = linspace(0)
    /\ solution' = NoRows
    /\ ode' = IdleOde
    /\ final_bhet' = 0
    /\ final_conversion' = 0

\* the user moves the widgets: Streamlit runs the script again from the top
Rerun ==
    /\ pc = "done"
    /\ \E T \in TemperatureChoices, ratio \in RatioChoices,
          cat \in CatalystChoices, time \in RunTimeChoices :
          Fresh(T, ratio, cat, time)
    /\ UNCHANGED <<last_conversion, call, ret>>

Start(T, ratio, cat, time) ==
    /\ pc = "start"
    /\ T_celsius = T
    /\ mol_ratio = ratio
    /\ cat_percent = cat
    /\ run_time = time
    /\ Real_Params = <<0, 0, 0, 0>>
    /\ t_grid = linspace(0)
    /\ solution = NoRows
    /\ ode = IdleOde
    /\ final_bhet = 0
    /\ final_conversion = 0
    /\ last_conversion = NoConversion
    /\ call = NoCall
    /\ ret = <<>>

\* the first run: every widget at its default value (lines 80-88)
Init == Start(196, 400, 5, 180)

Next == Prepare \/ OdeintOutput \/ OdeintStep \/ Display \/ Rerun

\* The application: requests come from the widgets
Spec == Init /\ [][Next]_vars

----------------------------------------------------------------------------
(* Two runs that differ in the catalyst amount only: the user raises         *)
(* cat_percent from 0.0 to 2.0 and compares the conversion shown.            *)

RerunCatalyst ==
    /\ pc = "done"
    /\ cat_percent = 0
    /\ last_conversion' = [shown |-> TRUE, value |-> final_conversion]
    /\ Fresh(T_celsius, mol_ratio, 20, run_time)
    /\ UNCHANGED <<call, ret>>

InitPair ==
    \E T \in TemperatureChoices, ratio \in RatioChoices, time \in RunTimeChoices :
        Start(T, ratio, 0, time)

NextPair == Prepare \/ OdeintOutput \/ OdeintStep \/ Display \/ RerunCatalyst

SpecPair == InitPair /\ [][NextPair]_vars

----------------------------------------------------------------------------
(* The computation of lines 93-133 on values the widgets would not deliver.  *)
(* The ranges of lines 80-88 are the widgets'; the computation itself reads  *)
(* four plain variables.                                                     *)

CoreRequests ==
    { <<196, 400, 5, 180>>,      \* the defaults
      <<196, 400, 5, 0>>,        \* run_time = 0
      <<196, 400, 5, -30>>,      \* negative run time
      <<196, 400, -6, 180>>,     \* negative catalyst amount
      <<-274, 400, 5, 180>> }    \* below absolute zero

InitCore == \E r \in CoreRequests : Start(r[1], r[2], r[3], r[4])

NextCore == Prepare \/ OdeintOutput \/ OdeintStep \/ OdeintFail \/ Display

SpecCore == InitCore /\ [][NextCore]_vars

----------------------------------------------------------------------------
(* Direct calls of get_k and adjust_params_by_catalyst *)

\* the slider's range, and 1.15 K and 2.15 K where np.exp underflows to 0
KelvinChoices == {T_kelvin(c) : c \in {-272, -271, 160, 161, 196, 230, 259, 260}}
AChoices == {0, 50, 100, 1100}
EaChoices == {70000, 80000, 85000}
BaseChoices == { Base_Params, <<10, 60000, 5, 70000>>, <<250, 85000, 1100, 80000>> }
CatChoices == {0, 1, 5, 20, 21, 50}

Calls ==
    {[fn |-> "get_k", T |-> T, A |-> A, Ea |-> Ea] :
        T \in KelvinChoices, A \in AChoices, Ea \in EaChoices}
    \cup
    {[fn |-> "adjust_params_by_catalyst", base |-> b, cat |-> c] :
        b \in BaseChoices, c \in CatChoices}

Call_get_k ==
    /\ pc = "call"
    /\ call.fn = "get_k"
    /\ ret' = << get_k(call.T, call.A, call.Ea) >>
    /\ pc' = "returned"
    /\ UNCHANGED <<T_celsius, mol_ratio, cat_percent, run_time, Real_Params, t_grid,
                   solution, ode, final_bhet, final_conversion, last_conversion, call>>

Call_adjust_params_by_catalyst ==
    /\ pc = "call"
    /\ call.fn = "adjust_params_by_catalyst"
    /\ ret' = adjust_params_by_catalyst(call.base, call.cat)
    /\ pc' = "returned"
    /\ UNCHANGED <<T_celsius, mol_ratio, cat_percent, run_time, Real_Params, t_grid,
                   solution, ode, final_bhet, final_conversion, last_conversion, call>>

InitCalls ==
    /\ pc = "call"
    /\ call \in Calls
    /\ ret = <<>>
    /\ T_celsius = 196
    /\ mol_ratio = 400
    /\ cat_percent = 5
    /\ run_time = 180
    /\ Real_Params = <<0, 0, 0, 0>>
    /\ t_grid = linspace(0)
    /\ solution = NoRows
    /\ ode = IdleOde
    /\ final_bhet = 0
    /\ final_conversion = 0
    /\ last_conversion = NoConversion

NextCalls == Call_get_k \/ Call_adjust_params_by_catalyst

SpecCalls == InitCalls /\ [][NextCalls]_vars

----------------------------------------------------------------------------
(* The claims *)

ValidRequest ==
    /\ T_celsius \in 160 .. 260
    /\ mol_ratio \in 100 .. 1000
    /\ cat_percent \in 0 .. 50
    /\ run_time \in 30 .. 300

Rows == IF solution.n = 0 THEN {} ELSE {solution.first, solution.last}

\* a row has been appended to the rows of the same call of odeint
RowAppended == solution.n >= 1 /\ solution'.n = solution.n + 1

\* the solver has taken a step
Stepped == pc = "odeint" /\ pc' = "odeint" /\ ode'.t # ode.t

\* C1: for every request of the widgets, every row written has
\* C_PET + C_Oligomer + C_BHET within 1e-3 (relative) of C0_PET = 1.0, and
\* every derivative the solver got from reaction_model has
\* dPET_dt + dOli_dt + dBHET_dt = 0.
C1_MassConservation ==
    /\ \A row \in Rows :
          Abs(row[1] + row[3] + row[4] - 1000000) * 1000 <= 1000000
    /\ ode.dydt[1] + ode.dydt[3] + ode.dydt[4] = 0

\* C1 witness: a finished run in which more than half of the PET has reacted
\* and BHET has formed.
C1_Witness ==
    /\ pc = "done"
    /\ ValidRequest
    /\ 2 * solution.last[1] < C0_PET
    /\ solution.last[4] > 0

C3_CatalystAdjustment ==
    (pc = "returned" /\ call.fn = "adjust_params_by_catalyst") =>
        /\ ret[1] * 10 = call.base[1] * (10 + 2 * call.cat)
        /\ ret[3] * 10 = call.base[3] * (10 + 2 * call.cat)
        /\ ret[2] = call.base[2]
        /\ ret[4] = call.base[4]
        /\ \A c2 \in CatChoices :
              (c2 > call.cat /\ call.base[1] > 0) =>
                  adjust_params_by_catalyst(call.base, c2)[1] > ret[1]
        /\ call.cat = 0 => ret = call.base

\* C3 witness: a call with a catalyst amount of 2.0 has returned.
C3_Witness ==
    /\ pc = "returned"
    /\ call.fn = "adjust_params_by_catalyst"
    /\ call.cat = 20
    /\ ret[1] > call.base[1]

\* C4: a finished run has 100 rows on the uniform grid from 0 to run_time,
\* in increasing time, and the first row is exactly the initial state
\* (1.0, 1.0 * mol_ratio, 0, 0) at t = 0.
C4_Trajectory ==
    /\ solution.n >= 1 => solution.first = <<1000000, 10000 * mol_ratio, 0, 0>>
    /\ pc = "done" =>
          /\ solution.n = 100
          /\ Len(t_grid) = 100
          /\ t_grid[1] = 0
          /\ t_grid[100] = 99 * run_time
          /\ \A i \in 1 .. 99 :
                t_grid[i + 1] - t_grid[i] = run_time /\ t_grid[i + 1] > t_grid[i]

\* C4 witness: a finished run whose last row differs from its first.
C4_Witness ==
    /\ pc = "done"
    /\ solution.n = 100
    /\ solution.last # solution.first

C9_RateConstantIncreasing ==
    (pc = "returned" /\ call.fn = "get_k") =>
        /\ ret[1] >= 0
        /\ \A T2 \in KelvinChoices :
              T2 > call.T => get_k(T2, call.A, call.Ea) > ret[1]

\* C9 as amended: get_k(T, A, Ea) >= 0 for A >= 0 and it never decreases
\* with T; for A > 0 and T from 160 C to 260 C it is strictly larger at every
\* larger T2; for A = 0 it is 0 at every T, and at 1.15 K and 2.15 K, where
\* the exponential underflows, it is 0 for every A.
C9_RateConstantIncreasingPositiveA ==
    (pc = "returned" /\ call.fn = "get_k") =>
        /\ ret[1] >= 0
        /\ call.A = 0 => ret[1] = 0
        /\ call.T < 300 => ret[1] = 0
        /\ \A T2 \in KelvinChoices :
              /\ T2 > call.T => get_k(T2, call.A, call.Ea) >= ret[1]
              /\ (T2 > call.T /\ call.A > 0 /\ call.T >= 43315) =>
                    get_k(T2, call.A, call.Ea) > ret[1]

\* C9 witness: a call at 160 C with a positive A has returned a positive k.
C9_Witness ==
    /\ pc = "returned"
    /\ call.fn = "get_k"
    /\ call.A > 0
    /\ call.T = 43315
    /\ ret[1] > 0

\* C10: every derivative the solver got from reaction_model has
\* dEG_dt + dOli_dt + 2 * dBHET_dt = 0; every row has
\* C_EG + C_Oligomer + 2 * C_BHET within 1e-3 (relative) of C0_EG; a row
\* without a negative concentration has C_BHET <= C0_EG / 2 within that
\* tolerance; and with mol_ratio < 2 C_BHET stays below C0_PET.
C10_GlycolBalance ==
    /\ ode.dydt[2] + ode.dydt[3] + 2 * ode.dydt[4] = 0
    /\ \A row \in Rows :
          /\ Abs(row[2] + row[3] + 2 * row[4] - 10000 * mol_ratio) * 1000
                <= 10000 * mol_ratio
          /\ (row[1] >= 0 /\ row[2] >= 0 /\ row[3] >= 0) =>
                2 * row[4] <= 10000 * mol_ratio + 10 * mol_ratio
          /\ mol_ratio < 200 => row[4] < 1000000

\* C10 witness: a finished run with mol_ratio 1.5 in which most of the EG is
\* used up and BHET has formed.
C10_Witness ==
    /\ pc = "done"
    /\ mol_ratio = 150
    /\ 2 * solution.last[2] < 10000 * mol_ratio
    /\ solution.last[4] > 0

====
